---- MODULE Spec2Model ----
(***************************************************************************)
(* CyberSentinel: a capture worker (monitor.rs) that classifies frames,    *)
(* updates the shared Stats under a mutex and runs the anomaly detector    *)
(* (detector.rs), next to a dashboard loop (ui.rs) that snapshots the      *)
(* shared Stats.  main.rs starts the capture worker in both modes; the     *)
(* dashboard runs in the default mode only.                                *)
(*                                                                         *)
(* Time is the monotonic clock read by Instant::now(), in whole seconds.   *)
(* A frame is the record of the bytes the code inspects: its length, the   *)
(* EtherType (bytes 12-13), byte 14 (version/IHL), byte 23 (protocol), the *)
(* source address (bytes 26-29) and the destination port.  The destination *)
(* address and the source port are only copied into alert records and are  *)
(* left out, as is the wall-clock timestamp of an alert record.            *)
(*                                                                         *)
(* The clock advances only while the capture worker waits for a frame: the *)
(* detector is the only reader of the clock, and the three readings of one *)
(* analyze_packet call (detector.rs:49, 52, 54/65) are taken as one        *)
(* instant.  The counters are u64 and the hit count u32; no run within the *)
(* bounds comes near either width (the hit count never exceeds 51).        *)
(* Terminal and file I/O are taken to succeed, so no thread panics while   *)
(* it holds a guard and no mutex is poisoned.                              *)
(*                                                                         *)
(* In scan mode the main thread sleeps 30 seconds, then runs               *)
(* logger::finalize_alerts_json while the capture worker goes on.  The     *)
(* file alerts.json is a sequence of pieces (lines, the array, the rest of *)
(* an overwritten line); each file operation of logger.rs is one step.     *)
(***************************************************************************)
EXTENDS Integers, Sequences, FiniteSets, TLC

VARIABLES
    now,        \* monotonic clock, seconds
    IP_HITS,    \* detector.rs:10  HashMap<Ipv4Addr, (u32, Instant)>
    mapLock,    \* owner of the IP_HITS mutex, or "free"
    stats,      \* state.rs:4-9    the shared Stats
    statsLock,  \* owner of the Stats mutex, or "free"
    sink,       \* alerts.json: the lines appended by logger::log_event
    capPc,      \* position of the capture worker in start_capture
    data,       \* monitor.rs:17   the frame being checked: <<>> or <<frame>>
    flow,       \* monitor.rs:28-40 the extracted fields: <<>> or <<flow>>
    uiPc,       \* position of the main thread (run_dashboard, run_scan_mode)
    partial,    \* ui.rs:34-39     the tuple being built under the guard
    snapshot,   \* ui.rs:32        stats_snapshot: <<>> or <<copy>>
    fin_alerts, \* logger.rs:60    the Vec finalize_alerts_json collects
    verdict,    \* history: why the last frame was dropped, "" if it was not
    obs,        \* history: what the analyze_packet call in progress did
    burst,      \* history: per source, the packets observed since its record was created:
                \*   n       how many, first: when the first one arrived,
                \*   within  all of them arrived less than 10 s after the first
                \*   since   how many since window_start was last assigned, counting
                \*           the packet that rolled the window over but not the
                \*           one that raised the flood alert; nth: the rank of the
                \*           last packet among those since the window_start it met
                \*   quiet   how many since the last flood alert; gap: that number
                \*           before the last packet
                \*   calm    how many since the last rollover
                \*   second  when the second one arrived, -1 before
                \*   alone   the record and the verdict of a detector that is fed
                \*           the packets of this source and no others
    classified, \* history: the classified frames, counted by protocol
    whole,      \* history: the counters after the last whole-packet update
    snapWhole,  \* history: `whole` when the dashboard acquired the guard
    logged,     \* history: every log_event call, with the rank of its packet among
                \*          the packets that raised an alert
    finBegan,   \* history: Len(logged) when finalize_alerts_json began, -1 before
    finEnded    \* history: Len(logged) when its rewrite was complete, -1 before

vars == <<now, IP_HITS, mapLock, stats, statsLock, sink, capPc, data, flow,
          uiPc, partial, snapshot, fin_alerts, verdict, obs, burst, classified,
          whole, snapWhole, logged, finBegan, finEnded>>

----------------------------------------------------------------------------
(* Program constants *)

MIN_FRAME_LEN == 34
ETHERTYPE_IPV4 == 2048
PROTO_TCP == 6
PROTO_UDP == 17
WINDOW_SECS == 10
SCAN_SECS == 30
FLOOD_THRESHOLD == 50
SUSPICIOUS_PORTS == {23, 445, 1433, 3389, 31337}

(* Bounds of the model *)

MaxTime == 11        \* the clock stops advancing here
MaxPackets == 52     \* classified frames in a run
MaxSink == 2         \* lines in alerts.json
TuiMaxPackets == 3   \* classified frames in a dashboard run
OrderMaxSink == 3    \* lines in alerts.json in a run of SpecOrder
FloodMaxPackets == 103  \* classified frames in a run of SpecFlood
FloodMaxSink == 3    \* lines in alerts.json in a run of SpecFlood
TwoMaxPackets == 53  \* classified frames in a run of SpecTwo
TwoMaxTime == 6      \* the clock stops advancing here in a run of SpecTwo
FinMaxPackets == 3   \* classified frames in a run of SpecFin
FinMaxSink == 4      \* lines in alerts.json in a run of SpecFin

Delays == {5, 6}     \* seconds the clock advances between two frames

----------------------------------------------------------------------------
(* Frames delivered by the frame source *)

Frame(len, ethertype, byte14, protocol, src, dport) ==
    [len |-> len, ethertype |-> ethertype, byte14 |-> byte14,
     protocol |-> protocol, src |-> src, dport |-> dport]

TooShortNoFloor(f) == f.len < 14

\* monitor.rs:19
TooShort(f) == f.len < MIN_FRAME_LEN

\* monitor.rs:23-24
NotIpv4(f) == f.ethertype # ETHERTYPE_IPV4

\* monitor.rs:30  (data[14] & 0x0F) * 4, in u8 arithmetic
ip_header_len(f) == ((f.byte14 % 16) * 4) % 256

\* monitor.rs:33-40  the highest index read is 17 + ip_header_len
PortsInBounds(f) == 17 + ip_header_len(f) < f.len

\* A scan run: one source, TCP, every suspicious port and three others; a short
\* frame, an ARP frame and a 34-byte frame that ends before the ports
ScanFrames ==
    {Frame(60, ETHERTYPE_IPV4, 69, PROTO_TCP, "A", p) : p \in {80, 22, 24} \cup SUSPICIOUS_PORTS}
    \cup {Frame(33, ETHERTYPE_IPV4, 69, PROTO_TCP, "A", 23),
          Frame(60, 2054, 69, PROTO_TCP, "A", 23),
          Frame(34, ETHERTYPE_IPV4, 69, PROTO_TCP, "A", 80)}

\* A run with alerts of several packets: one source, a plain and a suspicious
\* port, and the three kinds of frames that are not classified
OrderFrames ==
    {Frame(60, ETHERTYPE_IPV4, 69, PROTO_TCP, "A", p) : p \in {80, 23}}
    \cup {Frame(33, ETHERTYPE_IPV4, 69, PROTO_TCP, "A", 23),
          Frame(60, 2054, 69, PROTO_TCP, "A", 23),
          Frame(34, ETHERTYPE_IPV4, 69, PROTO_TCP, "A", 80)}

\* A long run of one source to a plain port, for two flood alerts
FloodFrames ==
    {Frame(60, ETHERTYPE_IPV4, 69, PROTO_TCP, "A", 80),
     Frame(33, ETHERTYPE_IPV4, 69, PROTO_TCP, "A", 80),
     Frame(60, 2054, 69, PROTO_TCP, "A", 80),
     Frame(34, ETHERTYPE_IPV4, 69, PROTO_TCP, "A", 80)}

\* Two sources to a plain port
TwoFrames ==
    {Frame(60, ETHERTYPE_IPV4, 69, PROTO_TCP, s, 80) : s \in {"A", "B"}}
    \cup {Frame(33, ETHERTYPE_IPV4, 69, PROTO_TCP, "A", 80),
          Frame(60, 2054, 69, PROTO_TCP, "B", 80),
          Frame(34, ETHERTYPE_IPV4, 69, PROTO_TCP, "B", 80)}

\* A scan that is finalized: packets to two suspicious ports
FinFrames ==
    {Frame(60, ETHERTYPE_IPV4, 69, PROTO_TCP, "A", p) : p \in {23, 3389}}
    \cup {Frame(33, ETHERTYPE_IPV4, 69, PROTO_TCP, "A", 23),
          Frame(60, 2054, 69, PROTO_TCP, "A", 23),
          Frame(34, ETHERTYPE_IPV4, 69, PROTO_TCP, "A", 80)}

\* A dashboard run: two sources, TCP, UDP and ICMP; a short frame, an IPv6
\* frame and a 77-byte frame with a 60-byte IPv4 header
TuiFrames ==
    {Frame(60, ETHERTYPE_IPV4, 69, pr, "A", 80) : pr \in {PROTO_TCP, PROTO_UDP, 1}}
    \cup {Frame(60, ETHERTYPE_IPV4, 69, PROTO_TCP, "B", 3389),
          Frame(33, ETHERTYPE_IPV4, 69, PROTO_TCP, "A", 80),
          Frame(60, 34525, 69, PROTO_UDP, "A", 80),
          Frame(77, ETHERTYPE_IPV4, 79, PROTO_TCP, "A", 80)}

----------------------------------------------------------------------------
(* state.rs *)

\* state.rs:13-15  Stats::default()
create_shared_state ==
    [total_packets |-> 0, tcp_packets |-> 0, udp_packets |-> 0, alerts |-> <<>>]

Counters(s) ==
    [total_packets |-> s.total_packets, tcp_packets |-> s.tcp_packets,
     udp_packets |-> s.udp_packets]

----------------------------------------------------------------------------
(* detector.rs and logger.rs *)

\* detector.rs:23-27
proto_str(protocol) ==
    IF protocol = PROTO_TCP THEN "TCP"
    ELSE IF protocol = PROTO_UDP THEN "UDP" ELSE "Other"

\* logger.rs:26-34  the LogEntry of an alert
LogEntry(fl, alert) ==
    [source_ip |-> fl.src, dest_port |-> fl.dport,
     protocol |-> proto_str(fl.protocol), alert |-> alert]

log_eventPrepends(file, fl, alert) == <<LogEntry(fl, alert)>> \o file

\* logger.rs:36-44  one line appended to alerts.json
log_event(file, fl, alert) == Append(file, LogEntry(fl, alert))

IsSuspiciousWellKnown(dst_port) == dst_port < 1024

\* detector.rs:35
IsSuspicious(dst_port) == dst_port \in SUSPICIOUS_PORTS

\* detector.rs:49  map.entry(src).or_insert((0, Instant::now()))
Entry(map, src, t) ==
    IF src \in DOMAIN map THEN map[src] ELSE [count |-> 0, window_start |-> t]

WindowExpiresAtTen(entry, t) == t - entry.window_start >= WINDOW_SECS

WindowExpiresAfterEleven(entry, t) == t - entry.window_start > WINDOW_SECS + 1

WindowNeverExpires(entry, t) == FALSE

\* detector.rs:52  entry.1.elapsed() > Duration::from_secs(10)
WindowExpired(entry, t) == t - entry.window_start > WINDOW_SECS

OverThresholdOffByOne(entry) == entry.count > FLOOD_THRESHOLD + 1

OverThresholdAtFifty(entry) == entry.count >= FLOOD_THRESHOLD

\* detector.rs:55
OverThreshold(entry) == entry.count > FLOOD_THRESHOLD

RuleBThresholdFirst(entry, t) ==
    LET hit == [entry EXCEPT !.count = @ + 1] IN
    IF OverThreshold(hit)
    THEN [rec |-> [count |-> 0, window_start |-> t], flood |-> TRUE]
    ELSE IF WindowExpired(hit, t)
    THEN [rec |-> [count |-> 1, window_start |-> t], flood |-> FALSE]
    ELSE [rec |-> hit, flood |-> FALSE]

\* detector.rs:50-66  the record left in the map and whether the flood alert fires
RuleB(entry, t) ==
    LET hit == [entry EXCEPT !.count = @ + 1] IN
    IF WindowExpired(hit, t)
    THEN [rec |-> [count |-> 1, window_start |-> t], flood |-> FALSE]
    ELSE IF OverThreshold(hit)
    THEN [rec |-> [count |-> 0, window_start |-> t], flood |-> TRUE]
    ELSE [rec |-> hit, flood |-> FALSE]

\* the length of the burst the flood rule answers to: one packet past the threshold
BurstLen == FLOOD_THRESHOLD + 1

PutResetsOthers(map, k, v) ==
    [x \in DOMAIN map \cup {k} |-> IF x = k THEN v ELSE [map[x] EXCEPT !.count = 0]]

\* history: the rank of the packet that made the last log_event call, 0 if none
LastSeq(calls) == IF calls = <<>> THEN 0 ELSE calls[Len(calls)].seq

Put(map, k, v) == [x \in DOMAIN map \cup {k} |-> IF x = k THEN v ELSE map[x]]

EmptyMap == [x \in {} |-> 0]

----------------------------------------------------------------------------
(* Initial state: main.rs:22-29 (default mode) and main.rs:39-47 (--scan) *)

InitCommon ==
    /\ now = 0
    /\ IP_HITS = EmptyMap
    /\ mapLock = "free"
    /\ stats = create_shared_state
    /\ statsLock = "free"
    /\ sink = <<>>
    /\ capPc = "open"
    /\ data = <<>>
    /\ flow = <<>>
    /\ partial = <<>>
    /\ snapshot = <<>>
    /\ fin_alerts = <<>>
    /\ verdict = ""
    /\ obs = <<>>
    /\ burst = EmptyMap
    /\ classified = [n |-> 0, tcp |-> 0, udp |-> 0, other |-> 0]
    /\ whole = Counters(create_shared_state)
    /\ snapWhole = Counters(create_shared_state)
    /\ logged = <<>>
    /\ finBegan = -1
    /\ finEnded = -1

\* main.rs:22-31  the main thread runs the dashboard
Init == InitCommon /\ uiPc = "start"

\* main.rs:36-50  the main thread sleeps while the capture worker runs
InitScan == InitCommon /\ uiPc = "sleep"

\* The process lives until main returns (main.rs:31-34)
Running == uiPc # "exited"

----------------------------------------------------------------------------
(* The capture worker: monitor.rs start_capture *)

CapVars == <<capPc, data, flow, IP_HITS, mapLock, sink, verdict, obs, burst, classified,
             logged>>
UiVars == <<uiPc, partial, snapshot, snapWhole, fin_alerts, finBegan, finEnded>>

\* monitor.rs:8-14  device lookup and open succeed
CapOpen ==
    /\ Running /\ capPc = "open"
    /\ capPc' = "loop"
    /\ UNCHANGED <<now, logged, verdict, IP_HITS, mapLock, stats, statsLock, sink, data, flow,
                   obs, burst, classified, whole>>
    /\ UNCHANGED UiVars

\* monitor.rs:8-14  device lookup or open fails: start_capture returns Err
CapOpenFail ==
    /\ Running /\ capPc = "open"
    /\ capPc' = "failed"
    /\ UNCHANGED <<now, logged, verdict, IP_HITS, mapLock, stats, statsLock, sink, data, flow,
                   obs, burst, classified, whole>>
    /\ UNCHANGED UiVars

\* The clock advances while the worker waits for a frame
Tick(maxT) ==
    /\ Running /\ capPc = "loop"
    /\ \E d \in Delays : now + d <= maxT /\ now' = now + d
    /\ UNCHANGED <<stats, statsLock, whole>>
    /\ UNCHANGED CapVars
    /\ UNCHANGED UiVars

\* monitor.rs:16-17  cap.next_packet() returns a frame.  A run is cut off after
\* maxP classified frames, and when alerts.json holds more than maxS - 2 lines: the two lines
\* one packet can add would pass the bound.
CapNext(frames, maxP, maxS) ==
    /\ Running /\ capPc = "loop"
    /\ stats.total_packets < maxP
    /\ Len(sink) + 2 <= maxS
    /\ \E f \in frames : data' = <<f>>
    /\ capPc' = "check"
    /\ verdict' = ""
    /\ UNCHANGED <<now, logged, IP_HITS, mapLock, stats, statsLock, sink, flow,
                   obs, burst, classified, whole>>
    /\ UNCHANGED UiVars

\* monitor.rs:16  cap.next_packet() returns Err: the loop ends, Ok(()) is returned
CapEnd ==
    /\ Running /\ capPc = "loop"
    /\ capPc' = "done"
    /\ UNCHANGED <<now, logged, verdict, IP_HITS, mapLock, stats, statsLock, sink, data, flow,
                   obs, burst, classified, whole>>
    /\ UNCHANGED UiVars

\* monitor.rs:19-21
CapRejectShort ==
    /\ Running /\ capPc = "check"
    /\ TooShort(data[1])
    /\ capPc' = "loop"
    /\ data' = <<>>
    /\ verdict' = "short"
    /\ UNCHANGED <<now, logged, IP_HITS, mapLock, stats, statsLock, sink, flow,
                   obs, burst, classified, whole>>
    /\ UNCHANGED UiVars

\* monitor.rs:23-26
CapRejectEtherType ==
    /\ Running /\ capPc = "check"
    /\ ~TooShort(data[1])
    /\ NotIpv4(data[1])
    /\ capPc' = "loop"
    /\ data' = <<>>
    /\ verdict' = "ethertype"
    /\ UNCHANGED <<now, logged, IP_HITS, mapLock, stats, statsLock, sink, flow,
                   obs, burst, classified, whole>>
    /\ UNCHANGED UiVars

\* monitor.rs:33-40  an index past the end of the slice panics: the worker
\* thread unwinds and ends; no guard is held at this point
CapPanic ==
    /\ Running /\ capPc = "check"
    /\ ~TooShort(data[1])
    /\ ~NotIpv4(data[1])
    /\ ~PortsInBounds(data[1])
    /\ capPc' = "panicked"
    /\ data' = <<>>
    /\ verdict' = "panic"
    /\ UNCHANGED <<now, logged, IP_HITS, mapLock, stats, statsLock, sink, flow,
                   obs, burst, classified, whole>>
    /\ UNCHANGED UiVars

\* monitor.rs:28-40  the fields of the flow are read
CapClassify ==
    /\ Running /\ capPc = "check"
    /\ ~TooShort(data[1])
    /\ ~NotIpv4(data[1])
    /\ PortsInBounds(data[1])
    /\ flow' = <<[src |-> data[1].src, dport |-> data[1].dport,
                  protocol |-> data[1].protocol, size |-> data[1].len]>>
    /\ data' = <<>>
    /\ capPc' = "lockStats"
    /\ classified' =
         [n |-> classified.n + 1,
          tcp |-> classified.tcp + (IF data[1].protocol = PROTO_TCP THEN 1 ELSE 0),
          udp |-> classified.udp + (IF data[1].protocol = PROTO_UDP THEN 1 ELSE 0),
          other |-> classified.other
                      + (IF data[1].protocol \in {PROTO_TCP, PROTO_UDP} THEN 0 ELSE 1)]
    /\ UNCHANGED <<now, logged, verdict, IP_HITS, mapLock, stats, statsLock, sink, obs, burst, whole>>
    /\ UNCHANGED UiVars

CanLockStatsAlways == TRUE

\* Mutex::lock on the shared Stats
CanLockStats == statsLock = "free"

\* monitor.rs:43
CapLockStats ==
    /\ Running /\ capPc = "lockStats"
    /\ CanLockStats
    /\ statsLock' = "capture"
    /\ capPc' = "incTotal"
    /\ UNCHANGED <<now, logged, verdict, IP_HITS, mapLock, stats, sink, data, flow,
                   obs, burst, classified, whole>>
    /\ UNCHANGED UiVars

\* monitor.rs:44
IncTotal(s) == [s EXCEPT !.total_packets = @ + 1]

CapIncTotal ==
    /\ Running /\ capPc = "incTotal"
    /\ stats' = IncTotal(stats)
    /\ capPc' = "incProto"
    /\ UNCHANGED <<now, logged, verdict, IP_HITS, mapLock, statsLock, sink, data, flow,
                   obs, burst, classified, whole>>
    /\ UNCHANGED UiVars

IncProtoRecountTotal(s, protocol) ==
    LET t == IF protocol = PROTO_TCP THEN [s EXCEPT !.tcp_packets = @ + 1]
             ELSE IF protocol = PROTO_UDP THEN [s EXCEPT !.udp_packets = @ + 1]
             ELSE s
    IN [t EXCEPT !.total_packets = t.tcp_packets + t.udp_packets]

IncProtoOtherAsUdp(s, protocol) ==
    IF protocol = PROTO_TCP THEN [s EXCEPT !.tcp_packets = @ + 1]
    ELSE [s EXCEPT !.udp_packets = @ + 1]

IncProtoPushesAlert(s, protocol) ==
    IF protocol = PROTO_TCP
    THEN [s EXCEPT !.tcp_packets = @ + 1, !.alerts = Append(@, "tcp")]
    ELSE IF protocol = PROTO_UDP THEN [s EXCEPT !.udp_packets = @ + 1]
    ELSE s

\* monitor.rs:45-49
IncProto(s, protocol) ==
    IF protocol = PROTO_TCP THEN [s EXCEPT !.tcp_packets = @ + 1]
    ELSE IF protocol = PROTO_UDP THEN [s EXCEPT !.udp_packets = @ + 1]
    ELSE s

CapIncProto ==
    /\ Running /\ capPc = "incProto"
    /\ stats' = IncProto(stats, flow[1].protocol)
    /\ capPc' = "unlockStats"
    /\ UNCHANGED <<now, logged, verdict, IP_HITS, mapLock, statsLock, sink, data, flow,
                   obs, burst, classified, whole>>
    /\ UNCHANGED UiVars

CapKeepStatsGuard ==
    /\ Running /\ capPc = "unlockStats"
    /\ whole' = Counters(stats)
    /\ capPc' = "ruleA"
    /\ UNCHANGED <<now, logged, verdict, IP_HITS, mapLock, stats, statsLock, sink, data, flow,
                   obs, burst, classified>>
    /\ UNCHANGED UiVars

\* monitor.rs:50  the guard is dropped at the end of the block
CapUnlockStats ==
    /\ Running /\ capPc = "unlockStats"
    /\ statsLock' = "free"
    /\ whole' = Counters(stats)
    /\ capPc' = "ruleA"
    /\ UNCHANGED <<now, logged, verdict, IP_HITS, mapLock, stats, sink, data, flow,
                   obs, burst, classified>>
    /\ UNCHANGED UiVars

\* detector.rs:23-45  analyze_packet up to the suspicious-port rule
AnalyzeRuleA ==
    /\ Running /\ capPc = "ruleA"
    /\ sink' = IF IsSuspicious(flow[1].dport)
               THEN log_event(sink, flow[1], "Suspicious port access")
               ELSE sink
    /\ logged' = IF IsSuspicious(flow[1].dport)
                 THEN Append(logged, [seq |-> LastSeq(logged) + 1,
                                      entry |-> LogEntry(flow[1], "Suspicious port access")])
                 ELSE logged
    /\ obs' = <<[base |-> Len(sink), calls |-> Len(logged), pre |-> IP_HITS, at |-> now,
                 done |-> FALSE]>>
    /\ capPc' = "lockMap"
    /\ UNCHANGED <<now, verdict, IP_HITS, mapLock, stats, statsLock, data, flow,
                   burst, classified, whole>>
    /\ UNCHANGED UiVars

\* detector.rs:48  IP_HITS.lock()
AnalyzeLockMap ==
    /\ Running /\ capPc = "lockMap"
    /\ mapLock = "free"
    /\ mapLock' = "capture"
    /\ capPc' = "ruleB"
    /\ UNCHANGED <<now, logged, verdict, IP_HITS, stats, statsLock, sink, data, flow,
                   obs, burst, classified, whole>>
    /\ UNCHANGED UiVars

\* detector.rs:49-66  the scan/flood rule, under the map guard
AnalyzeRuleB ==
    /\ Running /\ capPc = "ruleB"
    /\ LET src == flow[1].src
           r == RuleB(Entry(IP_HITS, src, now), now)
           e == Entry(IP_HITS, src, now)
           late == now - e.window_start > WINDOW_SECS
           b == IF src \in DOMAIN burst
                THEN burst[src]
                ELSE [n |-> 0, first |-> now, within |-> TRUE, since |-> 0, nth |-> 0,
                      quiet |-> 0, gap |-> 0, calm |-> 0, second |-> -1,
                      alone |-> [rec |-> e, flood |-> FALSE]]
       IN /\ IP_HITS' = Put(IP_HITS, src, r.rec)
          /\ sink' = IF r.flood
                     THEN log_event(sink, flow[1], "Port scan or flooding detected")
                     ELSE sink
          /\ logged' = IF r.flood
                       THEN Append(logged,
                              [seq |-> IF Len(logged) > obs[1].calls
                                       THEN LastSeq(logged)
                                       ELSE LastSeq(logged) + 1,
                               entry |-> LogEntry(flow[1], "Port scan or flooding detected")])
                       ELSE logged
          /\ burst' = [x \in DOMAIN burst \cup {src} |->
                        IF x # src THEN burst[x] ELSE
                          [n |-> b.n + 1, first |-> b.first,
                           within |-> b.within /\ now - b.first < WINDOW_SECS,
                           since |-> IF r.flood THEN 0 ELSE IF late THEN 1 ELSE b.since + 1,
                           nth |-> b.since + 1,
                           quiet |-> IF r.flood THEN 0 ELSE b.quiet + 1,
                           gap |-> b.quiet,
                           calm |-> IF late THEN 0 ELSE b.calm + 1,
                           second |-> IF b.n = 1 THEN now ELSE b.second,
                           alone |-> RuleB(b.alone.rec, now)]]
    /\ obs' = <<[obs[1] EXCEPT !.at = now, !.done = TRUE]>>
    /\ capPc' = "unlockMap"
    /\ UNCHANGED <<now, verdict, mapLock, stats, statsLock, data, flow, classified, whole>>
    /\ UNCHANGED UiVars

\* detector.rs:67  analyze_packet returns, the map guard is dropped;
\* monitor.rs:60  end of the loop body
AnalyzeReturn ==
    /\ Running /\ capPc = "unlockMap"
    /\ mapLock' = "free"
    /\ flow' = <<>>
    /\ obs' = <<>>
    /\ capPc' = "loop"
    /\ UNCHANGED <<now, logged, verdict, IP_HITS, stats, statsLock, sink, data,
                   burst, classified, whole>>
    /\ UNCHANGED UiVars

\* monitor.rs:7-63  one step of the capture worker
start_capture(frames, maxP, maxS) ==
    \/ CapOpen
    \/ CapOpenFail
    \/ CapNext(frames, maxP, maxS)
    \/ CapEnd
    \/ CapRejectShort
    \/ CapRejectEtherType
    \/ CapPanic
    \/ CapClassify
    \/ CapLockStats
    \/ CapIncTotal
    \/ CapIncProto
    \/ CapUnlockStats
    \/ AnalyzeRuleA
    \/ AnalyzeLockMap
    \/ AnalyzeRuleB
    \/ AnalyzeReturn

MonitorErrorExits ==
    /\ Running /\ capPc = "failed"
    /\ capPc' = "reported"
    /\ uiPc' = "exited"
    /\ UNCHANGED <<now, logged, verdict, IP_HITS, mapLock, stats, statsLock, sink, data,
                   flow, obs, burst, classified, whole>>
    /\ UNCHANGED <<partial, snapshot, snapWhole, fin_alerts, finBegan, finEnded>>

\* main.rs:26-28, 44-46  start_capture returned Err: the worker thread prints
\* "Monitor error: ..." to stderr and ends
MonitorError ==
    /\ Running /\ capPc = "failed"
    /\ capPc' = "reported"
    /\ UNCHANGED <<now, logged, verdict, IP_HITS, mapLock, stats, statsLock, sink, data,
                   flow, obs, burst, classified, whole>>
    /\ UNCHANGED UiVars

----------------------------------------------------------------------------
(* The dashboard: ui.rs run_dashboard, on the main thread *)

UiFrame == <<now, IP_HITS, mapLock, sink, capPc, data, flow, verdict, obs, burst,
             classified, whole, logged, fin_alerts, finBegan, finEnded>>

\* ui.rs:22-28
UiStart ==
    /\ uiPc = "start"
    /\ uiPc' = "lock"
    /\ UNCHANGED <<stats, statsLock, partial, snapshot, snapWhole>>
    /\ UNCHANGED UiFrame

\* ui.rs:33
UiLockStats ==
    /\ uiPc = "lock"
    /\ CanLockStats
    /\ statsLock' = "ui"
    /\ snapWhole' = whole
    /\ partial' = <<>>
    /\ uiPc' = "readTotal"
    /\ UNCHANGED <<stats, snapshot>>
    /\ UNCHANGED UiFrame

\* ui.rs:35
UiReadTotal ==
    /\ uiPc = "readTotal"
    /\ partial' = <<stats.total_packets>>
    /\ uiPc' = "readTcp"
    /\ UNCHANGED <<stats, statsLock, snapshot, snapWhole>>
    /\ UNCHANGED UiFrame

\* ui.rs:36
UiReadTcp ==
    /\ uiPc = "readTcp"
    /\ partial' = Append(partial, stats.tcp_packets)
    /\ uiPc' = "readUdp"
    /\ UNCHANGED <<stats, statsLock, snapshot, snapWhole>>
    /\ UNCHANGED UiFrame

\* ui.rs:37
UiReadUdp ==
    /\ uiPc = "readUdp"
    /\ partial' = Append(partial, stats.udp_packets)
    /\ uiPc' = "readAlerts"
    /\ UNCHANGED <<stats, statsLock, snapshot, snapWhole>>
    /\ UNCHANGED UiFrame

\* ui.rs:38
UiReadAlerts ==
    /\ uiPc = "readAlerts"
    /\ partial' = Append(partial, stats.alerts)
    /\ uiPc' = "unlock"
    /\ UNCHANGED <<stats, statsLock, snapshot, snapWhole>>
    /\ UNCHANGED UiFrame

\* ui.rs:32,40  the tuple is bound to stats_snapshot and the guard is dropped
UiUnlockStats ==
    /\ uiPc = "unlock"
    /\ snapshot' = <<[total_packets |-> partial[1], tcp_packets |-> partial[2],
                      udp_packets |-> partial[3], alerts |-> partial[4]]>>
    /\ partial' = <<>>
    /\ statsLock' = "free"
    /\ uiPc' = "draw"
    /\ UNCHANGED <<stats, snapWhole>>
    /\ UNCHANGED UiFrame

\* ui.rs:42-44
UiDraw ==
    /\ uiPc = "draw"
    /\ uiPc' = "poll"
    /\ UNCHANGED <<stats, statsLock, partial, snapshot, snapWhole>>
    /\ UNCHANGED UiFrame

\* ui.rs:46-52  no event within 500 ms, or an event other than the key 'q'
UiPollContinue ==
    /\ uiPc = "poll"
    /\ uiPc' = "lock"
    /\ UNCHANGED <<stats, statsLock, partial, snapshot, snapWhole>>
    /\ UNCHANGED UiFrame

\* ui.rs:48-50,55-62  'q': the loop ends, run_dashboard and main return
UiQuit ==
    /\ uiPc = "poll"
    /\ uiPc' = "exited"
    /\ UNCHANGED <<stats, statsLock, partial, snapshot, snapWhole>>
    /\ UNCHANGED UiFrame

\* ui.rs:21-63  one step of the dashboard
run_dashboard ==
    \/ UiStart
    \/ UiLockStats
    \/ UiReadTotal
    \/ UiReadTcp
    \/ UiReadUdp
    \/ UiReadAlerts
    \/ UiUnlockStats
    \/ UiDraw
    \/ UiPollContinue
    \/ UiQuit

----------------------------------------------------------------------------
(* Specifications *)

\* Default mode (main.rs:22-33): capture worker and dashboard
Next ==
    \/ start_capture(TuiFrames, TuiMaxPackets, MaxSink)
    \/ MonitorError
    \/ Tick(MaxTime)
    \/ run_dashboard

Spec == Init /\ [][Next]_vars

\* Scan mode with room in alerts.json for the alerts of two packets, the clock
\* standing still
NextOrder ==
    \/ start_capture(OrderFrames, MaxPackets, OrderMaxSink)
    \/ MonitorError

SpecOrder == InitScan /\ [][NextOrder]_vars

\* Scan mode, a run long enough for a source to raise the flood alert twice
NextFlood ==
    \/ start_capture(FloodFrames, FloodMaxPackets, FloodMaxSink)
    \/ MonitorError
    \/ Tick(MaxTime)

SpecFlood == InitScan /\ [][NextFlood]_vars

\* Scan mode with the packets of two sources interleaved
NextTwo ==
    \/ start_capture(TwoFrames, TwoMaxPackets, MaxSink)
    \/ MonitorError
    \/ Tick(TwoMaxTime)

SpecTwo == InitScan /\ [][NextTwo]_vars

----------------------------------------------------------------------------
(* Scan mode: main.rs run_scan_mode and logger.rs finalize_alerts_json, on the
   main thread.  alerts.json is a sequence of pieces: the lines log_event
   appended, each one the JSON object of a LogEntry; the pretty-printed array
   finalize writes, [array |-> entries]; and what is left of a line whose
   beginning was overwritten, [garbled |-> TRUE].  The file is absent until
   something is written: log_event creates it and appends in one step. *)

FinFrame == <<now, IP_HITS, mapLock, stats, statsLock, capPc, data, flow, verdict, obs,
              burst, classified, whole, logged, partial, snapshot, snapWhole>>

LogEntryFields == {"source_ip", "dest_port", "protocol", "alert"}

\* logger.rs:66  serde_json::from_str::<LogEntry>(line) succeeds
ParsesAsLogEntry(line) == DOMAIN line = LogEntryFields

ReadAlertsReversed(file) ==
    LET kept == SelectSeq(file, ParsesAsLogEntry)
    IN [i \in DOMAIN kept |-> kept[Len(kept) + 1 - i]]

\* logger.rs:60-71  the lines that parse, in the order of the file
ReadAlerts(file) == SelectSeq(file, ParsesAsLogEntry)

\* logger.rs:74  serde_json::to_string_pretty(&alerts)
JsonArray(alerts) == [array |-> alerts]

\* logger.rs:55,76  writeln! through the handle File::create returned, which
\* writes from offset 0 and does not append: it replaces the beginning of
\* whatever the capture worker appended after the truncation.  The array of K
\* entries is longer than K lines and shorter than K + 1: it covers K lines
\* and the beginning of the next, "[]" covers the beginning of the first.
WriteFromStart(file, alerts) ==
    IF Len(file) <= Len(alerts)
    THEN <<JsonArray(alerts)>>
    ELSE <<JsonArray(alerts), [garbled |-> TRUE]>>
         \o SubSeq(file, Len(alerts) + 2, Len(file))

\* main.rs:50  thread::sleep(30 s) returns; no frame arrives in what is left
\* of the 30 seconds
ScanWake ==
    /\ uiPc = "sleep"
    /\ now' = IF now < SCAN_SECS THEN SCAN_SECS ELSE now
    /\ uiPc' = "finOpen"
    /\ UNCHANGED <<IP_HITS, mapLock, stats, statsLock, sink, capPc, data, flow, verdict,
                   obs, burst, classified, whole, logged, partial, snapshot, snapWhole,
                   fin_alerts, finBegan, finEnded>>

\* logger.rs:49-50  File::open succeeds: alerts.json exists
FinOpen ==
    /\ uiPc = "finOpen"
    /\ sink # <<>>
    /\ finBegan' = Len(logged)
    /\ uiPc' = "finRead"
    /\ UNCHANGED <<sink, fin_alerts, finEnded>>
    /\ UNCHANGED FinFrame

\* logger.rs:51  File::open fails: no alerts.json
FinOpenAbsent ==
    /\ uiPc = "finOpen"
    /\ sink = <<>>
    /\ finBegan' = Len(logged)
    /\ uiPc' = "finCreateEmpty"
    /\ UNCHANGED <<sink, fin_alerts, finEnded>>
    /\ UNCHANGED FinFrame

\* logger.rs:53  File::create creates the file or truncates it
FinCreateEmpty ==
    /\ uiPc = "finCreateEmpty"
    /\ sink' = <<>>
    /\ uiPc' = "finWriteEmpty"
    /\ UNCHANGED <<fin_alerts, finBegan, finEnded>>
    /\ UNCHANGED FinFrame

\* logger.rs:54-55  writeln!(file, "[]"), return
FinWriteEmpty ==
    /\ uiPc = "finWriteEmpty"
    /\ sink' = WriteFromStart(sink, <<>>)
    /\ finEnded' = Len(logged)
    /\ uiPc' = "report"
    /\ UNCHANGED <<fin_alerts, finBegan>>
    /\ UNCHANGED FinFrame

\* logger.rs:59-71  every line is read and parsed
FinRead ==
    /\ uiPc = "finRead"
    /\ fin_alerts' = ReadAlerts(sink)
    /\ uiPc' = "finCreate"
    /\ UNCHANGED <<sink, finBegan, finEnded>>
    /\ UNCHANGED FinFrame

\* logger.rs:74-75  File::create truncates alerts.json
FinCreate ==
    /\ uiPc = "finCreate"
    /\ sink' = <<>>
    /\ uiPc' = "finWrite"
    /\ UNCHANGED <<fin_alerts, finBegan, finEnded>>
    /\ UNCHANGED FinFrame

\* logger.rs:76-77  the array is written, finalize_alerts_json returns
FinWrite ==
    /\ uiPc = "finWrite"
    /\ sink' = WriteFromStart(sink, fin_alerts)
    /\ fin_alerts' = <<>>
    /\ finEnded' = Len(logged)
    /\ uiPc' = "report"
    /\ UNCHANGED finBegan
    /\ UNCHANGED FinFrame

\* main.rs:55-56  "Scan completed successfully!", main returns, the process ends
ScanReport ==
    /\ uiPc = "report"
    /\ uiPc' = "exited"
    /\ UNCHANGED <<sink, fin_alerts, finBegan, finEnded>>
    /\ UNCHANGED FinFrame

\* logger.rs:47-77
finalize_alerts_json ==
    \/ FinOpen
    \/ FinOpenAbsent
    \/ FinCreateEmpty
    \/ FinWriteEmpty
    \/ FinRead
    \/ FinCreate
    \/ FinWrite

\* main.rs:36-56  the main thread in scan mode
run_scan_mode ==
    \/ ScanWake
    \/ finalize_alerts_json
    \/ ScanReport

\* Scan mode to its end: the capture worker, and main waking up to finalize
NextFin ==
    \/ start_capture(FinFrames, FinMaxPackets, FinMaxSink)
    \/ MonitorError
    \/ Tick(MaxTime)
    \/ run_scan_mode

SpecFin == InitScan /\ [][NextFin]_vars

\* Scan mode (main.rs:36-50): the capture worker alone, main asleep
NextScan ==
    \/ start_capture(ScanFrames, MaxPackets, MaxSink)
    \/ MonitorError
    \/ Tick(MaxTime)

SpecScan == InitScan /\ [][NextScan]_vars

----------------------------------------------------------------------------
(* What the analyze_packet call in progress has done so far *)

FLOOD_ALERT == "Port scan or flooding detected"
PORT_ALERT == "Suspicious port access"

ObsSrc == flow[1].src
Emitted == SubSeq(sink, obs[1].base + 1, Len(sink))
EmittedCount(alert) == Cardinality({i \in DOMAIN Emitted : Emitted[i].alert = alert})
HadRecord == ObsSrc \in DOMAIN obs[1].pre
PreCount == IF HadRecord THEN obs[1].pre[ObsSrc].count ELSE 0
Elapsed == IF HadRecord THEN obs[1].at - obs[1].pre[ObsSrc].window_start ELSE 0
Observed == capPc = "unlockMap"

----------------------------------------------------------------------------
(* Claims about the detector, checked under SpecScan *)

\* C1: from no record for a source, while all its packets fall less than 10
\* seconds after the first, packets 1..50 emit no flood alert, packet 51 emits
\* exactly one, and the record is then count 0 with window_start = now.
C1_FiftyFirstPacketFloods ==
    Observed /\ burst[ObsSrc].within =>
        /\ burst[ObsSrc].n <= 50 =>
              /\ EmittedCount(FLOOD_ALERT) = 0
              /\ \A i \in DOMAIN sink :
                    ~(sink[i].source_ip = ObsSrc /\ sink[i].alert = FLOOD_ALERT)
        /\ burst[ObsSrc].n = 51 =>
              /\ EmittedCount(FLOOD_ALERT) = 1
              /\ Cardinality({i \in DOMAIN sink : sink[i].source_ip = ObsSrc
                                                  /\ sink[i].alert = FLOOD_ALERT}) = 1
              /\ IP_HITS[ObsSrc] = [count |-> 0, window_start |-> now]

C1_Witness ==
    /\ Observed
    /\ burst[ObsSrc].within
    /\ burst[ObsSrc].n = 51
    /\ flow[1].dport = 80
    /\ Emitted = <<[source_ip |-> ObsSrc, dest_port |-> 80, protocol |-> "TCP",
                    alert |-> FLOOD_ALERT]>>
    /\ now - burst[ObsSrc].first = 6

\* C2: an observe more than 10 seconds after window_start emits no flood alert
\* whatever the count, and leaves the record at count 1 with window_start set
\* to the time of that packet.
C2_RolloverBeforeThreshold ==
    Observed /\ Elapsed > 10 =>
        /\ EmittedCount(FLOOD_ALERT) = 0
        /\ IP_HITS[ObsSrc] = [count |-> 1, window_start |-> obs[1].at]

C2_Witness ==
    /\ Observed
    /\ PreCount = 50
    /\ Elapsed = 11
    /\ EmittedCount(FLOOD_ALERT) = 0
    /\ IP_HITS[ObsSrc].count = 1

\* The record analyze_packet is to leave for a source, from the record before
\* and the time alone
RecordAfter(hadRecord, count, elapsed, t) ==
    IF hadRecord /\ elapsed > 10 THEN [count |-> 1, window_start |-> t]
    ELSE IF count + 1 > 50 THEN [count |-> 0, window_start |-> t]
    ELSE [count |-> count + 1, window_start |-> t - elapsed]

\* C3: a suspicious-port alert is emitted exactly when the destination port is
\* one of 23, 445, 1433, 3389, 31337, whatever the hit count and window; the rule
\* leaves the per-IP map alone, and the record after the observe is a function
\* of the record before and the time only.
C3_SuspiciousPortRule ==
    /\ capPc \in {"lockMap", "ruleB", "unlockMap"} =>
          EmittedCount(PORT_ALERT) =
              IF flow[1].dport \in {23, 445, 1433, 3389, 31337} THEN 1 ELSE 0
    /\ capPc \in {"lockMap", "ruleB"} => IP_HITS = obs[1].pre /\ Emitted \in
          {<<>>, <<[source_ip |-> ObsSrc, dest_port |-> flow[1].dport,
                    protocol |-> proto_str(flow[1].protocol), alert |-> PORT_ALERT]>>}
    /\ Observed =>
          /\ IP_HITS[ObsSrc] = RecordAfter(HadRecord, PreCount, Elapsed, obs[1].at)
          /\ \A ip \in DOMAIN obs[1].pre \ {ObsSrc} : IP_HITS[ip] = obs[1].pre[ip]

\* both rules fire on one packet: the suspicious-port line, then the flood line
C3_Witness ==
    /\ Observed
    /\ flow[1].dport = 31337
    /\ PreCount = 50
    /\ Len(Emitted) = 2
    /\ Emitted[1].alert = PORT_ALERT
    /\ Emitted[2].alert = FLOOD_ALERT

\* C4 as stated: past the window the count is reset to 0 or 1, and in every
\* other observe the stored count ends strictly greater than it was.
C4_AsStated ==
    Observed =>
        IF Elapsed > 10
        THEN IP_HITS[ObsSrc].count \in {0, 1}
        ELSE IP_HITS[ObsSrc].count > PreCount

\* C4 amended: past the window the count is reset (to 0 or 1); within the
\* window it ends strictly greater than it was, except that the hit which takes
\* it past 50 emits the flood alert and resets it to 0.
C4_CountResetsOrIncreases ==
    Observed =>
        IF Elapsed > 10
        THEN IP_HITS[ObsSrc].count \in {0, 1}
        ELSE IF PreCount + 1 > 50
        THEN IP_HITS[ObsSrc].count = 0 /\ EmittedCount(FLOOD_ALERT) = 1
        ELSE IP_HITS[ObsSrc].count > PreCount

C4_Witness ==
    /\ Observed
    /\ Elapsed = 10
    /\ PreCount = 50
    /\ IP_HITS[ObsSrc].count = 0

----------------------------------------------------------------------------
(* Claims about the capture loop and the shared Stats, checked under Spec *)

\* C5 as stated: a frame of at least 34 bytes with the IPv4 EtherType whose
\* length does not cover the port bytes at 14 + header_len .. 14 + header_len + 3
\* is dropped: the worker returns to reading frames and the counters and the
\* per-IP map are unchanged.
C5_TruncatedFrameDropped ==
    [][(/\ capPc = "check"
        /\ data[1].len >= 34
        /\ data[1].ethertype = 2048
        /\ data[1].len < 14 + 4 * (data[1].byte14 % 16) + 4
        /\ capPc' # "check")
       => (/\ capPc' = "loop"
           /\ stats' = stats
           /\ IP_HITS' = IP_HITS)]_vars

\* C6: a frame shorter than 34 bytes or with an EtherType other than 0x0800
\* yields no flow; the counters, the per-IP map and the sink are unchanged by
\* it and the worker returns to reading frames.
C6_InvalidFramesRejected ==
    [][(/\ capPc = "check"
        /\ (data[1].len < 34 \/ data[1].ethertype # 2048)
        /\ capPc' # "check")
       => (/\ capPc' = "loop"
           /\ flow' = <<>>
           /\ stats' = stats
           /\ IP_HITS' = IP_HITS
           /\ sink' = sink)]_vars

C6_Witness ==
    /\ capPc = "loop"
    /\ verdict = "short"
    /\ flow = <<>>
    /\ stats.total_packets = 2
    /\ DOMAIN IP_HITS = {"A"}

\* No update of the counters is in progress
BetweenUpdates == capPc \notin {"lockStats", "incTotal", "incProto"}

\* C7: between updates total_packets is the number of classified frames,
\* tcp_packets and udp_packets the numbers of those with protocol 6 and 17;
\* tcp + udp <= total, strictly less exactly when a classified frame had
\* another protocol.
C7_CountersMatchClassified ==
    /\ stats.tcp_packets + stats.udp_packets <= stats.total_packets
    /\ BetweenUpdates =>
          /\ stats.total_packets = classified.n
          /\ stats.tcp_packets = classified.tcp
          /\ stats.udp_packets = classified.udp
          /\ (stats.tcp_packets + stats.udp_packets < stats.total_packets)
                <=> classified.other > 0

C7_Witness ==
    /\ capPc = "loop"
    /\ stats.total_packets = 3
    /\ stats.tcp_packets = 1
    /\ stats.udp_packets = 1
    /\ classified.other = 1

\* The dashboard holds a finished snapshot and is not building the next one
SnapshotTaken == snapshot # <<>> /\ uiPc \in {"draw", "poll", "lock", "exited"}

\* C8: every snapshot equals the counters as they stood after a whole-packet
\* update, at the instant the dashboard acquired the guard; so tcp + udp <= total
\* in it, with equality when only TCP and UDP packets were classified.
C8_SnapshotConsistent ==
    SnapshotTaken =>
        /\ Counters(snapshot[1]) = snapWhole
        /\ snapshot[1].tcp_packets + snapshot[1].udp_packets
              <= snapshot[1].total_packets
        /\ classified.other = 0 =>
              snapshot[1].tcp_packets + snapshot[1].udp_packets
                 = snapshot[1].total_packets

\* a snapshot of two packets, taken while the worker was between the second
\* update and a third that is now half done
C8_Witness ==
    /\ SnapshotTaken
    /\ snapshot[1].total_packets = 2
    /\ snapshot[1].tcp_packets + snapshot[1].udp_packets = 2
    /\ capPc = "incProto"
    /\ stats.total_packets = 3

\* C9: the counters never decrease, and each snapshot is component-wise at
\* least the snapshot before it.
C9_CountersMonotonic ==
    [][/\ stats'.total_packets >= stats.total_packets
       /\ stats'.tcp_packets >= stats.tcp_packets
       /\ stats'.udp_packets >= stats.udp_packets
       /\ (snapshot # <<>> /\ snapshot' # <<>>) =>
             /\ snapshot'[1].total_packets >= snapshot[1].total_packets
             /\ snapshot'[1].tcp_packets >= snapshot[1].tcp_packets
             /\ snapshot'[1].udp_packets >= snapshot[1].udp_packets]_vars

\* the snapshot being finished is larger than the one rendered before it
C9_Witness ==
    /\ uiPc = "unlock"
    /\ snapshot # <<>>
    /\ snapshot[1].total_packets = 1
    /\ partial[1] = 3
    /\ partial[2] = 2

CapBlocked ==
    \/ capPc = "lockStats" /\ statsLock # "free"
    \/ capPc = "lockMap" /\ mapLock # "free"

UiBlocked == uiPc = "lock" /\ statsLock # "free"

\* C10: the capture worker holds the Stats guard only across the increments
\* of one packet and the dashboard only while copying a snapshot; it is not
\* held during detection, alert logging, rendering or polling, nor while the
\* map guard is acquired or held by the same thread; the two workers are never
\* both blocked, and a blocked worker waits for a holder that is inside its
\* increment or its copy.
C10_StatsGuardMinimal ==
    /\ statsLock = "capture" <=> capPc \in {"incTotal", "incProto", "unlockStats"}
    /\ statsLock = "ui" <=>
          uiPc \in {"readTotal", "readTcp", "readUdp", "readAlerts", "unlock"}
    /\ capPc \in {"ruleA", "lockMap", "ruleB", "unlockMap"} => statsLock # "capture"
    /\ uiPc \in {"draw", "poll"} => statsLock # "ui"
    /\ mapLock = "capture" <=> capPc \in {"ruleB", "unlockMap"}
    /\ ~(CapBlocked /\ UiBlocked)
    /\ CapBlocked => capPc = "lockStats" /\ statsLock = "ui"
    /\ UiBlocked => statsLock = "capture"

\* the dashboard copies a snapshot while the worker holds the map guard
C10_Witness ==
    /\ mapLock = "capture"
    /\ statsLock = "ui"
    /\ capPc = "ruleB"
    /\ uiPc = "readTcp"

----------------------------------------------------------------------------
(* C11: failure to open the capture *)

CaptureFailed == capPc \in {"failed", "reported"}

\* C11: when device lookup or opening the capture fails, the capture worker
\* stops: its only further step is the report of the error. It never touches
\* the counters (they stay at their last values, zero) nor the Stats guard,
\* and the dashboard is unaffected: it is never blocked on the guard, it goes
\* on snapshotting and drawing, and it ends only from its poll, on 'q'.
C11_OpenFailureLeavesDashboard ==
    [][CaptureFailed =>
          /\ capPc' \in {"failed", "reported"}
          /\ capPc = "reported" => capPc' = "reported"
          /\ stats' = stats /\ Counters(stats) = Counters(create_shared_state)
          /\ statsLock # "capture" /\ statsLock' # "capture"
          /\ ~UiBlocked
          /\ uiPc' # uiPc => uiPc' # "exited" \/ uiPc = "poll"
          /\ uiPc = "unlock" /\ uiPc' = "draw" =>
                Counters(snapshot'[1]) = Counters(create_shared_state)]_vars

\* the error has been reported and the dashboard, having drawn a snapshot
\* before, is copying the next one
C11_Witness ==
    /\ capPc = "reported"
    /\ uiPc = "readTcp"
    /\ statsLock = "ui"
    /\ snapshot # <<>>

----------------------------------------------------------------------------
(* C20: the alerts list of the shared Stats *)

\* C20: no step of the capture path or of the detector modifies the alerts
\* list of the shared Stats: it is empty in every state, and so is the alert
\* list of every snapshot the dashboard copies, however many alerts went to
\* alerts.json.
C20_StatsAlertsStayEmpty ==
    /\ stats.alerts = <<>>
    /\ Len(partial) = 4 => partial[4] = <<>>
    /\ snapshot # <<>> => snapshot[1].alerts = <<>>

\* an alert is in alerts.json and the dashboard has copied a snapshot that
\* counts the packet that raised it
C20_Witness ==
    /\ Len(sink) >= 1
    /\ capPc = "loop"
    /\ uiPc = "draw"
    /\ snapshot # <<>>
    /\ snapshot[1].total_packets = stats.total_packets
    /\ snapshot[1].tcp_packets >= 1

----------------------------------------------------------------------------
(* C15, C17: the window and the hit map, checked under SpecScan *)

C17_HitMapBounded ==
    [][/\ \A s \in DOMAIN IP_HITS : IP_HITS[s].count \in 0..FLOOD_THRESHOLD
       /\ \A s \in DOMAIN IP_HITS' : IP_HITS'[s].count \in 0..FLOOD_THRESHOLD
       /\ DOMAIN IP_HITS = {s \in DOMAIN burst : burst[s].n >= 1}
       /\ DOMAIN IP_HITS' = {s \in DOMAIN burst' : burst'[s].n >= 1}
       /\ DOMAIN IP_HITS \subseteq DOMAIN IP_HITS'
       /\ \A s \in DOMAIN IP_HITS : IP_HITS'[s].window_start >= IP_HITS[s].window_start]_vars

\* the record is back at 0 after the 51st packet, and still there
C17_Witness ==
    /\ capPc = "loop"
    /\ DOMAIN IP_HITS = {"A"}
    /\ IP_HITS["A"].count = 0
    /\ burst["A"].n = BurstLen

----------------------------------------------------------------------------
(* C12: one frame at a time, checked under SpecOrder *)

LoggedEntries == [i \in DOMAIN logged |-> logged[i].entry]

RECURSIVE ObservedCount(_)
ObservedCount(S) ==
    IF S = {} THEN 0
    ELSE LET s == CHOOSE x \in S : TRUE IN burst[s].n + ObservedCount(S \ {s})

\* C12: frames are processed one at a time. When the worker reads a frame,
\* and while it checks it, every frame classified before has been counted and
\* observed and its alerts are in alerts.json; the lines of alerts.json are the
\* alerts in the order of the log_event calls, which is the order of arrival
\* of their packets; a packet that fires both rules has its suspicious-port
\* line immediately before its flood line.
C12_OneFrameAtATime ==
    /\ sink = LoggedEntries
    /\ \A i \in DOMAIN logged : logged[i].seq \in 1..classified.n
    /\ LastSeq(logged) <= Len(logged)
    /\ \A i, j \in DOMAIN logged :
          i < j => \/ logged[i].seq < logged[j].seq
                   \/ /\ logged[i].seq = logged[j].seq
                      /\ j = i + 1
                      /\ logged[i].entry.alert = PORT_ALERT
                      /\ logged[j].entry.alert = FLOOD_ALERT
    /\ capPc \in {"loop", "check"} =>
          /\ flow = <<>> /\ obs = <<>>
          /\ mapLock = "free" /\ statsLock # "capture"
          /\ stats.total_packets = classified.n
          /\ ObservedCount(DOMAIN burst) = classified.n
    /\ capPc \in {"ruleA", "lockMap", "ruleB"} =>
          ObservedCount(DOMAIN burst) = classified.n - 1

\* an early packet to a suspicious port, then the 51st packet, to a
\* suspicious port too: three lines, the last two of the same packet
C12_Witness ==
    /\ capPc = "loop"
    /\ Len(sink) = 3
    /\ logged[1].seq < logged[2].seq
    /\ logged[2].seq = logged[3].seq
    /\ burst["A"].n = BurstLen
    /\ sink[1].alert = PORT_ALERT
    /\ sink[2].alert = PORT_ALERT
    /\ sink[3].alert = FLOOD_ALERT

----------------------------------------------------------------------------
(* C16: when the flood alert is raised, checked under SpecFlood *)

\* C16: a packet raises at most one flood alert, for its own source, and only
\* when it is at least the 51st packet of that source since the window_start
\* its record held when it arrived and arrives no more than 10 seconds after
\* that window_start; at least 50 packets of the source without a flood alert
\* lie between two flood alerts of that source.
C16_FloodOnlyPastThreshold ==
    Observed /\ EmittedCount(FLOOD_ALERT) >= 1 =>
        /\ EmittedCount(FLOOD_ALERT) = 1
        /\ Emitted[Len(Emitted)].source_ip = ObsSrc
        /\ burst[ObsSrc].nth >= BurstLen
        /\ Elapsed <= WINDOW_SECS
        /\ burst[ObsSrc].gap >= FLOOD_THRESHOLD

\* the second flood alert of a source, exactly 10 seconds after the first
C16_Witness ==
    /\ Observed
    /\ EmittedCount(FLOOD_ALERT) = 1
    /\ Len(sink) = 2
    /\ sink[1].alert = FLOOD_ALERT
    /\ Elapsed = WINDOW_SECS
    /\ burst[ObsSrc].n = 2 * BurstLen
    /\ burst[ObsSrc].gap = FLOOD_THRESHOLD

----------------------------------------------------------------------------
(* C18: sources are independent, checked under SpecTwo *)

\* C18: observing a packet of one source leaves the count and window_start of
\* every other source's record as they were, and no other step writes the map.
\* The record of a source, and whether its packet raises the flood alert, are
\* those of a detector that saw the packets of that source alone, at the same
\* times.
C18_SourcesIndependent ==
    [][/\ \A s \in DOMAIN IP_HITS :
             ~(capPc = "ruleB" /\ s = ObsSrc) =>
                 s \in DOMAIN IP_HITS' /\ IP_HITS'[s] = IP_HITS[s]
       /\ \A s \in DOMAIN IP_HITS' : s \in DOMAIN IP_HITS \/ (capPc = "ruleB" /\ s = ObsSrc)
       /\ \A s \in DOMAIN IP_HITS' : IP_HITS'[s] = burst'[s].alone.rec
       /\ capPc' = "unlockMap" =>
             EmittedCount(FLOOD_ALERT)' = IF burst'[ObsSrc'].alone.flood THEN 1 ELSE 0]_vars

\* the 51st packet of B raises the alert although two packets of A were
\* observed in the middle of B's burst
C18_Witness ==
    /\ Observed
    /\ ObsSrc = "B"
    /\ EmittedCount(FLOOD_ALERT) = 1
    /\ burst["B"].n = BurstLen
    /\ "A" \in DOMAIN IP_HITS
    /\ IP_HITS["A"] = [count |-> 2, window_start |-> 5]
    /\ burst["B"].first = 0
    /\ now = 5

----------------------------------------------------------------------------
(* C14: how the workers end, checked under Spec *)

CapStopped == capPc \in {"failed", "reported", "done", "panicked"}

\* C14 as stated: the dashboard can take the quit key at its poll whatever the
\* capture worker is doing, and it ends nowhere else; the capture worker stops
\* only where it talks to the frame source, on an error of device lookup or
\* open ("open") or when next_packet returns no frame ("loop"): no frame it
\* has read and no alert it emits stops it.
C14_CaptureStopsOnlyAtSource ==
    [][/\ uiPc = "poll" => ENABLED UiQuit
       /\ uiPc' = "exited" /\ uiPc # "exited" => uiPc = "poll"
       /\ CapStopped' /\ ~CapStopped => capPc \in {"open", "loop"}]_vars

----------------------------------------------------------------------------
(* C13, C19: finalize_alerts_json, checked under SpecFin *)

ScanCompleted == uiPc = "exited" /\ finEnded >= 0

\* the alerts logged before the k-th call of log_event returned, in call order
LoggedUpTo(k) == SubSeq(LoggedEntries, 1, k)

IsPrefix(a, b) == Len(a) <= Len(b) /\ a = SubSeq(b, 1, Len(a))

\* C13: when no alert is written between the moment finalize opens
\* alerts.json and the end of the scan, the file it leaves is one array: the
\* empty array if there was no file, else exactly the K records the file
\* held, in their order, each one once.
C13_FinalizeKeepsRecords ==
    ScanCompleted /\ Len(logged) = finBegan =>
        sink = <<JsonArray(LoggedEntries)>>

\* two different records, finalized with no writer about
C13_Witness ==
    /\ ScanCompleted
    /\ finBegan = 2
    /\ Len(logged) = 2
    /\ logged[1].entry.dest_port = 23
    /\ logged[2].entry.dest_port = 3389
    /\ Len(sink) = 1
    /\ Len(sink[1].array) = 2

\* C19 as stated: in scan mode, with the capture worker running during
\* finalize, alerts.json is a single array when the scan reports completion,
\* and the array holds every record appended before the rewrite was complete.
C19_NoAlertLost ==
    ScanCompleted =>
        /\ Len(sink) = 1
        /\ DOMAIN sink[1] = {"array"}
        /\ IsPrefix(LoggedUpTo(finEnded), sink[1].array)

====
